---- MODULE Spec2Model ----
(***************************************************************************)
(* MySQLStore (src/src/index.ts): an express-session store over a mysql2   *)
(* connection.  The model keeps the store object's fields, the sessions    *)
(* table behind the connection, the statements in flight between the       *)
(* store and the database, the promise pipeline the constructor starts,    *)
(* and the interval timers.                                                *)
(*                                                                         *)
(* Time is counted in half seconds (500 ms), so that Math.round(ms / 1000) *)
(* is a real rounding: Round(h) = (h + 1) \div 2.                          *)
(***************************************************************************)
EXTENDS Integers, Sequences, FiniteSets, TLC

VARIABLES
    built,              \* "no" | "ok" | "threw": how `new MySQLStore(...)` ended
    state,              \* this.state
    connection,         \* this.connection: "none" | "ext"
    options,            \* this.#options
    initPc,             \* position of the constructor's promise chain
    closePc,            \* position of a close() call
    onReadyPromises,    \* this.onReadyPromises: sequence of waiter ids
    waiters,            \* every promise onReady() returned: id -> status
    table,              \* the sessions table: a set of rows
    inflight,           \* statements handed to connection.query, not yet continued
    clock,              \* Date.now(), in half seconds
    expirationInterval, \* this.#expirationInterval: a timer handle, 0 for null
    liveTimers,         \* the interval timers of the process that are armed
    ended,              \* number of connection.end() calls
    createOutcome,      \* what the CREATE TABLE query did: "none" | "ok" | "failed"
    ending,             \* connection.end() has been called and has not settled
    configError,        \* where validateOptions() threw last: "none" | "constructor" | "assignment"
    closeDone,          \* a close() call has completed
    completed           \* the operation the last step finished, with its callback

vars == << built, state, connection, options, initPc, closePc, onReadyPromises,
           waiters, table, inflight, clock, expirationInterval, liveTimers,
           ended, createOutcome, ending, configError, closeDone, completed >>

----------------------------------------------------------------------------
(* Bounds of the model. *)

MaxClock == 1
MaxCalls == 1
MaxWaiters == 2
MaxSweeps == 1

(* Program constant: defaultOptions.expiration, 86400000 * 60 ms, in half  *)
(* seconds.                                                                *)
DefaultExpiration == 10368000

Ids == {"a", "b"}
NoId == "-"
WaiterIds == 1 .. MaxWaiters
TimerHandles == {1, 2}

----------------------------------------------------------------------------
(* Values of a session payload.  A cookie field is absent, a Date, a       *)
(* number of (half-second) epoch units, or an ISO date string.             *)

Absent == [k |-> "absent", t |-> 0]
DateV(t) == [k |-> "date", t |-> t]
NumV(t) == [k |-> "num", t |-> t]
StrV(t) == [k |-> "str", t |-> t]

NoCookie == [present |-> FALSE, expires |-> Absent, _expires |-> Absent]
Cookie(e, u) == [present |-> TRUE, expires |-> e, _expires |-> u]
Payload(c, u) == [cookie |-> c, user |-> u]
NoPayload == Payload(NoCookie, 0)

(* The payloads the callers hand to set and touch: a session without a    *)
(* cookie, and one whose cookie expires at a Date.                         *)
Payloads ==
    { Payload(NoCookie, 1),
      Payload(Cookie(DateV(0), Absent), 2) }

(* The cookies a payload can carry into the expiry rule of set and touch:  *)
(* none, expires only, _expires only, both, and an expires that is a       *)
(* number instead of a Date.                                               *)
CookiePayloads ==
    Payloads \cup
    { Payload(Cookie(Absent, DateV(3)), 3),
      Payload(Cookie(DateV(3), DateV(0)), 4),
      Payload(Cookie(NumV(1), Absent), 5) }

(* JSON text: what JSON.stringify writes and JSON.parse reads.  A Date is  *)
(* written as its ISO string and read back as a string; an absent field is *)
(* left out.  Text that is no JSON at all has valid = FALSE.               *)
JsonValue(v) == IF v.k = "date" THEN StrV(v.t) ELSE v

JSONstringify(data) ==
    [v |-> Payload([present |-> data.cookie.present,
                    expires |-> JsonValue(data.cookie.expires),
                    _expires |-> JsonValue(data.cookie._expires)],
                   data.user),
     valid |-> TRUE]

CorruptText == [v |-> NoPayload, valid |-> FALSE]
NoText == CorruptText

(* JSON.parse: threw is the SyntaxError. *)
JSONparse(text) ==
    IF text.valid THEN [threw |-> FALSE, value |-> text.v]
    ELSE [threw |-> TRUE, value |-> NoPayload]

(* JavaScript truthiness of a cookie field. *)
Truthy(v) ==
    CASE v.k = "absent" -> FALSE
      [] v.k = "num" -> v.t # 0
      [] OTHER -> TRUE

(* Math.round(ms / 1000) on a time in half seconds. *)
Round(h) == (h + 1) \div 2

(* new Date(x).getTime(): every value kind carries its epoch time. *)
GetTime(v) == v.t

----------------------------------------------------------------------------
(* Configuration. *)

AllowedColumnNames == {"session_id", "expires", "data"}

DefaultOptions ==
    [clearExpired |-> TRUE,
     expiration |-> DefaultExpiration,
     createDatabaseTable |-> TRUE,
     endConnectionOnClose |-> TRUE,
     disableTouch |-> FALSE,
     columnNames |-> AllowedColumnNames]

(* The options objects callers pass: the fields they give (the others are  *)
(* taken from the defaults by the setter's spread).                        *)
UserOptions ==
    { [clearExpired |-> FALSE, expiration |-> 2, createDatabaseTable |-> FALSE,
       endConnectionOnClose |-> TRUE, disableTouch |-> TRUE],
      [expiration |-> 2, columnNames |-> {"session_id", "bogus"}] }

(* {...defaults, ...given} *)
Spread(defaults, given) ==
    [k \in DOMAIN defaults |-> IF k \in DOMAIN given THEN given[k] ELSE defaults[k]]

(* validateOptions(): TRUE when it throws. *)
validateOptionsLax(opts) == FALSE
validateOptions(opts) ==
    \E userDefinedColumnName \in opts.columnNames :
        userDefinedColumnName \notin AllowedColumnNames

(* set options(options): the merged configuration; endConnectionOnClose is *)
(* !this.connection; the column names are the defaults' keys and the given *)
(* keys together.                                                          *)
SetOptions(given, conn) ==
    LET merged == Spread(DefaultOptions, given)
        names == DefaultOptions.columnNames \cup
                 (IF "columnNames" \in DOMAIN given THEN given.columnNames ELSE {})
    IN  [merged EXCEPT !.endConnectionOnClose = (conn = "none"),
                       !.columnNames = names]

----------------------------------------------------------------------------
(* The expiry set() stores. *)
SetExpires(data, now, opts) ==
    LET fromCookie ==
            IF data.cookie.present
            THEN IF Truthy(data.cookie.expires) THEN data.cookie.expires
                 ELSE IF Truthy(data.cookie._expires) THEN data.cookie._expires
                 ELSE Absent
            ELSE Absent
        expires == IF ~Truthy(fromCookie) THEN NumV(now + opts.expiration)
                   ELSE fromCookie
    IN  Round(GetTime(expires))

(* The expiry touch() stores. *)
TouchExpiresIgnoresUnderscore(data, now, opts) ==
    LET fromCookie ==
            IF data.cookie.present
            THEN IF Truthy(data.cookie.expires) THEN data.cookie.expires
                 ELSE Absent
            ELSE Absent
        expires == IF ~Truthy(fromCookie) THEN NumV(now + opts.expiration)
                   ELSE fromCookie
    IN  Round(GetTime(expires))
TouchExpires(data, now, opts) ==
    LET fromCookie ==
            IF data.cookie.present
            THEN IF Truthy(data.cookie.expires) THEN data.cookie.expires
                 ELSE IF Truthy(data.cookie._expires) THEN data.cookie._expires
                 ELSE Absent
            ELSE Absent
        expires == IF ~Truthy(fromCookie) THEN NumV(now + opts.expiration)
                   ELSE fromCookie
    IN  Round(GetTime(expires))

----------------------------------------------------------------------------
(* The SQL statements, as the database executes them on the table. *)

Row(id, e, d) == [expires |-> e, data |-> d, session_id |-> id]

\* SELECT data, expires FROM t WHERE session_id = ?
SelectById(tbl, id) == {r \in tbl : r.session_id = id}

(* INSERT ... ON DUPLICATE KEY UPDATE expires = VALUES(expires), data = VALUES(data) *)
UpsertKeepsData(tbl, id, e, d) ==
    IF \E r \in tbl : r.session_id = id
    THEN {IF r.session_id = id THEN [r EXCEPT !.expires = e] ELSE r : r \in tbl}
    ELSE tbl \cup {Row(id, e, d)}
Upsert(tbl, id, e, d) ==
    IF \E r \in tbl : r.session_id = id
    THEN {IF r.session_id = id THEN [r EXCEPT !.expires = e, !.data = d] ELSE r : r \in tbl}
    ELSE tbl \cup {Row(id, e, d)}

(* UPDATE t SET expires = ? WHERE session_id = ? *)
UpdateOrInsert(tbl, id, e) ==
    IF \E r \in tbl : r.session_id = id
    THEN {IF r.session_id = id THEN [r EXCEPT !.expires = e] ELSE r : r \in tbl}
    ELSE tbl \cup {Row(id, e, NoText)}
UpdateExpires(tbl, id, e) ==
    {IF r.session_id = id THEN [r EXCEPT !.expires = e] ELSE r : r \in tbl}

(* DELETE FROM t WHERE session_id = ? *)
DeleteById(tbl, id) == {r \in tbl : r.session_id # id}

(* DELETE FROM t WHERE expires < ? *)
DeleteExpiredInclusive(tbl, now) == {r \in tbl : ~(r.expires <= now)}
DeleteExpired(tbl, now) == {r \in tbl : ~(r.expires < now)}

\* SELECT all columns FROM t WHERE expires >= ?, and the COUNT of those rows
SelectLive(tbl, now) == {r \in tbl : r.expires >= now}
CountAllRows(tbl, now) == Cardinality(tbl)
CountLive(tbl, now) == Cardinality(SelectLive(tbl, now))

----------------------------------------------------------------------------
(* Statements in flight and what the connection answers. *)

UserOps == {"get", "set", "touch", "destroy", "length", "all", "clear"}

CallRec(op, id, e, d, now, hasCb) ==
    [expires |-> e, data |-> d, now |-> now, id |-> id, op |-> op, hasCb |-> hasCb,
     ok |-> FALSE, rows |-> {}, count |-> 0]

(* The table after the database has executed the statement of call c. *)
Execute(c, tbl) ==
    CASE c.op = "set" -> Upsert(tbl, c.id, c.expires, c.data)
      [] c.op = "touch" -> UpdateExpires(tbl, c.id, c.expires)
      [] c.op = "destroy" -> DeleteById(tbl, c.id)
      [] c.op = "clear" -> {}
      [] c.op = "sweep" -> DeleteExpired(tbl, c.now)
      [] OTHER -> tbl

(* The rows the database returns for the statement of call c. *)
ResultRows(c, tbl) ==
    CASE c.op = "get" -> SelectById(tbl, c.id)
      [] c.op = "all" -> SelectLive(tbl, c.now)
      [] OTHER -> {}

(* The number in the answer: COUNT for length; affectedRows for a           *)
(* statement that writes (an upsert counts 1 for an insert, 2 for an       *)
(* update, 0 when the row already holds the values; an UPDATE counts the   *)
(* rows it matched; a DELETE the rows it removed).                         *)
ResultCount(c, tbl) ==
    CASE c.op = "length" -> CountLive(tbl, c.now)
      [] c.op = "set" ->
            IF SelectById(tbl, c.id) = {} THEN 1
            ELSE IF Execute(c, tbl) = tbl THEN 0 ELSE 2
      [] c.op = "touch" -> Cardinality(SelectById(tbl, c.id))
      [] c.op \in {"destroy", "clear", "sweep"} ->
            Cardinality(tbl) - Cardinality(Execute(c, tbl))
      [] OTHER -> 0

(* async query(sql, params): the connection's answer; a failure is caught  *)
(* and logged, and the function then returns undefined.                    *)
query(c) ==
    [threw |-> FALSE, rows |-> c.rows, count |-> c.count, undefined |-> ~c.ok]

----------------------------------------------------------------------------
(* What each handler hands to its callback. *)

NoResult == [data |-> NoPayload, count |-> 0, kind |-> "nothing", map |-> {}]
NullResult == [NoResult EXCEPT !.kind = "null"]
DataResult(d) == [NoResult EXCEPT !.kind = "data", !.data = d]
CountResult(n) == [NoResult EXCEPT !.kind = "count", !.count = n]
MapResult(m) == [NoResult EXCEPT !.kind = "map", !.map = m]

(* cb: how many times the callback was invoked; err: its first argument. *)
Outcome(cb, err, res) == [cb |-> cb, err |-> err, res |-> res]

(* `if (!!rows)`: rows is the array of the result, and an array is truthy  *)
(* whatever its length.                                                    *)
NotFoundNever(rows) == FALSE
NotFound(rows) == TRUE

(* get, after the await. *)
GetOutcomeIgnoresExpiry(q, now) ==
    IF q.threw THEN Outcome(1, "QueryError", NoResult)
    ELSE IF q.undefined THEN Outcome(1, "TypeError", NoResult)
    ELSE IF q.rows = {} THEN Outcome(1, "none", NullResult)
    ELSE LET row == CHOOSE r \in q.rows : TRUE
             parsed == JSONparse(row.data)
         IN  IF parsed.threw THEN Outcome(1, "SyntaxError", NoResult)
             ELSE Outcome(1, "none", DataResult(parsed.value))
GetOutcome(q, now) ==
    IF q.threw THEN Outcome(1, "QueryError", NoResult)
    ELSE IF q.undefined THEN Outcome(1, "TypeError", NoResult)
    ELSE IF NotFound(q.rows) THEN Outcome(1, "none", NullResult)
    ELSE IF q.rows = {} THEN Outcome(1, "TypeError", NoResult)
    ELSE LET row == CHOOSE r \in q.rows : TRUE
             parsed == JSONparse(row.data)
         IN  IF row.expires < now THEN Outcome(1, "none", NullResult)
             ELSE IF parsed.threw THEN Outcome(1, "SyntaxError", NoResult)
             ELSE Outcome(1, "none", DataResult(parsed.value))

(* set, after the await. *)
SetOutcome(q) ==
    IF q.threw THEN Outcome(1, "QueryError", NoResult)
    ELSE Outcome(1, "none", NoResult)

(* touch, after the await. *)
TouchOutcome(q) ==
    IF q.threw THEN Outcome(1, "QueryError", NoResult)
    ELSE Outcome(1, "none", NoResult)

(* destroy, after the await; the callback is optional. *)
DestroyOutcome(q, hasCb) ==
    IF ~hasCb THEN Outcome(0, "none", NoResult)
    ELSE IF q.threw THEN Outcome(1, "QueryError", NoResult)
    ELSE Outcome(1, "none", NoResult)

(* length, after the await. *)
LengthOutcome(q) ==
    IF q.threw THEN Outcome(1, "QueryError", NoResult)
    ELSE IF q.undefined THEN Outcome(1, "TypeError", NoResult)
    ELSE Outcome(1, "none", CountResult(q.count))

(* all, after the await: rows whose data does not parse are left out. *)
AllOutcomeFailsOnCorrupt(q) ==
    IF q.threw THEN Outcome(1, "QueryError", NoResult)
    ELSE IF q.undefined THEN Outcome(1, "TypeError", NoResult)
    ELSE IF \E x \in q.rows : JSONparse(x.data).threw
         THEN Outcome(1, "SyntaxError", NoResult)
    ELSE Outcome(1, "none",
                 MapResult({[data |-> JSONparse(r.data).value, session_id |-> r.session_id] :
                            r \in q.rows}))
AllOutcome(q) ==
    IF q.threw THEN Outcome(1, "QueryError", NoResult)
    ELSE IF q.undefined THEN Outcome(1, "TypeError", NoResult)
    ELSE Outcome(1, "none",
                 MapResult({[data |-> JSONparse(r.data).value, session_id |-> r.session_id] :
                            r \in {x \in q.rows : ~JSONparse(x.data).threw}}))

(* clear returns without awaiting the query and without calling back. *)
ClearOutcome(hasCb) == Outcome(0, "none", NoResult)

(* The record of an operation that has finished. *)
Finished(c, now, queried, out) ==
    [expires |-> c.expires, data |-> c.data, now |-> now, id |-> c.id, op |-> c.op,
     hasCb |-> c.hasCb, ok |-> c.ok, rows |-> c.rows, count |-> c.count,
     cb |-> out.cb, err |-> out.err, res |-> out.res, queried |-> queried]

NothingFinished ==
    Finished(CallRec("none", NoId, 0, NoText, 0, FALSE), 0, FALSE,
             Outcome(0, "none", NoResult))

----------------------------------------------------------------------------
(* Initial state: no store yet; the table holds what earlier processes     *)
(* left in it.                                                             *)

InitialTables ==
    { {},
      { Row("a", 0, CorruptText),
        Row("b", 1, JSONstringify(Payload(NoCookie, 7))) } }

Init ==
    /\ built = "no"
    /\ state = "UNINITIALIZED"
    /\ connection = "none"
    /\ options = DefaultOptions
    /\ initPc = "none"
    /\ closePc = "idle"
    /\ onReadyPromises = << >>
    /\ waiters = [w \in WaiterIds |-> "none"]
    /\ table \in InitialTables
    /\ inflight = {}
    /\ clock = 0
    /\ expirationInterval = 0
    /\ liveTimers = {}
    /\ ended = 0
    /\ createOutcome = "none"
    /\ ending = FALSE
    /\ configError = "none"
    /\ closeDone = FALSE
    /\ completed = NothingFinished

(* A promise continuation of the store is queued: no timer and no I/O      *)
(* completion runs before it.                                              *)
MicrotaskPending == initPc \in {"start", "ready", "drain"} \/ closePc = "scheduled"

(* A callback, or the return of an operation, is under way: JavaScript     *)
(* runs it to completion before anything else.                             *)
Running == completed # NothingFinished

Now == Round(clock)

UserCalls == {c \in inflight : c.op \in UserOps}
Sweeps == {c \in inflight : c.op = "sweep"}

(* The middleware calls the store once it is ready, and keeps at most      *)
(* MaxCalls operations in flight.                                          *)
Ready == built = "ok" /\ initPc = "done" /\ ~Running

CanCall(c) ==
    /\ Ready
    /\ Cardinality(UserCalls) < MaxCalls
    /\ c \notin inflight

(* The connection's answer to the statement of call c, executed on tbl. *)
Answer(c, ok, tbl) ==
    [c EXCEPT !.ok = ok,
              !.rows = IF ok THEN ResultRows(c, tbl) ELSE {},
              !.count = IF ok THEN ResultCount(c, tbl) ELSE 0]

(* The answer to call c of operation op can arrive: an I/O completion runs *)
(* when no continuation of the store is queued.                            *)
Answered(c, op) == c \in inflight /\ c.op = op /\ ~MicrotaskPending /\ ~Running

----------------------------------------------------------------------------
(* Lifecycle. *)

(* new MySQLStore(options, connection): hasOptions is FALSE when the       *)
(* options argument is omitted.                                            *)
Construct(hasOptions, given, conn) ==
    /\ ~Running
    /\ built = "no"
    /\ state' = "INITIALIZING"
    /\ IF conn = "none"
       THEN /\ built' = "threw"
            /\ UNCHANGED << connection, options, initPc, onReadyPromises,
                            configError >>
       ELSE /\ connection' = conn
            /\ options' = IF hasOptions THEN SetOptions(given, conn) ELSE options
            /\ IF hasOptions /\ validateOptions(options')
               THEN /\ built' = "threw"
                    /\ configError' = "constructor"
                    /\ UNCHANGED << initPc, onReadyPromises >>
               ELSE /\ built' = "ok"
                    /\ onReadyPromises' = << >>
                    /\ initPc' = "start"
                    /\ UNCHANGED configError
    /\ completed' = NothingFinished
    /\ UNCHANGED << closePc, waiters, table, inflight, clock,
                    expirationInterval, liveTimers, ended, createOutcome,
                    ending, closeDone >>

(* clearExpirationInterval(): the timers left armed. *)
ClearedNothing == liveTimers
ClearedTimers == liveTimers \ {expirationInterval}

(* setInterval: a new timer, which is none of the timers armed so far. *)
NewHandle == CHOOSE h \in TimerHandles : h \notin liveTimers

SweepCall == CallRec("sweep", NoId, 0, NoText, Now, FALSE)

(* First continuation of the constructor's chain: createDatabaseTable(). *)
InitCreateTable ==
    /\ ~Running
    /\ initPc = "start"
    /\ IF options.createDatabaseTable
       THEN /\ inflight' = inflight \cup {CallRec("create", NoId, 0, NoText, 0, FALSE)}
            /\ initPc' = "creating"
       ELSE /\ initPc' = "ready"
            /\ UNCHANGED inflight
    /\ completed' = NothingFinished
    /\ UNCHANGED << built, state, connection, options, closePc,
                    onReadyPromises, waiters, table, clock, expirationInterval,
                    liveTimers, ended, createOutcome, ending, configError,
                    closeDone >>

(* rejectReadyPromises(error) *)
rejectReadyPromises ==
    [w \in WaiterIds |->
        IF \E i \in DOMAIN onReadyPromises : onReadyPromises[i] = w
        THEN "rejected" ELSE waiters[w]]

(* resolveReadyPromises() *)
resolveReadyPromises ==
    [w \in WaiterIds |->
        IF \E i \in DOMAIN onReadyPromises : onReadyPromises[i] = w
        THEN "resolved" ELSE waiters[w]]

(* createDatabaseTable() after its await: the connection has answered      *)
(* (ok) or rejected; createDatabaseTable rethrows what query threw, and    *)
(* the chain's catch rejects the waiters.                                  *)
CreateTableContinue(c, ok) ==
    /\ Answered(c, "create")
    /\ inflight' = inflight \ {c}
    /\ createOutcome' = IF ok THEN "ok" ELSE "failed"
    /\ IF query(Answer(c, ok, table)).threw
       THEN /\ waiters' = rejectReadyPromises
            /\ onReadyPromises' = << >>
            /\ initPc' = "failed"
       ELSE /\ initPc' = "ready"
            /\ UNCHANGED << waiters, onReadyPromises >>
    /\ completed' = NothingFinished
    /\ UNCHANGED << built, state, connection, options, closePc, table, clock,
                    expirationInterval, liveTimers, ended, ending, configError,
                    closeDone >>

(* Second continuation: the state becomes INITIALIZED and, with            *)
(* clearExpired, setExpirationInterval() clears the timer, sweeps once and *)
(* arms a new timer.                                                       *)
InitReady ==
    /\ ~Running
    /\ initPc = "ready"
    /\ state' = "INITIALIZED"
    /\ IF options.clearExpired
       THEN /\ inflight' = inflight \cup {SweepCall}
            /\ expirationInterval' = NewHandle
            /\ liveTimers' = ClearedTimers \cup {NewHandle}
       ELSE UNCHANGED << inflight, expirationInterval, liveTimers >>
    /\ initPc' = "drain"
    /\ completed' = NothingFinished
    /\ UNCHANGED << built, connection, options, closePc, onReadyPromises,
                    waiters, table, clock, ended, createOutcome, ending,
                    configError, closeDone >>

(* Third continuation: resolveReadyPromises(). *)
InitResolve ==
    /\ ~Running
    /\ initPc = "drain"
    /\ waiters' = resolveReadyPromises
    /\ onReadyPromises' = << >>
    /\ initPc' = "done"
    /\ completed' = NothingFinished
    /\ UNCHANGED << built, state, connection, options, closePc, table,
                    inflight, clock, expirationInterval, liveTimers, ended,
                    createOutcome, ending, configError, closeDone >>

(* onReady(): resolved at once when INITIALIZED, else queued. *)
onReady(w) ==
    /\ ~Running
    /\ built = "ok"
    /\ waiters[w] = "none"
    /\ \A v \in WaiterIds : v < w => waiters[v] # "none"
    /\ IF state = "INITIALIZED"
       THEN /\ waiters' = [waiters EXCEPT ![w] = "resolved"]
            /\ UNCHANGED onReadyPromises
       ELSE /\ waiters' = [waiters EXCEPT ![w] = "pending"]
            /\ onReadyPromises' = Append(onReadyPromises, w)
    /\ completed' = NothingFinished
    /\ UNCHANGED << built, state, connection, options, initPc, closePc, table,
                    inflight, clock, expirationInterval, liveTimers, ended,
                    createOutcome, ending, configError, closeDone >>

(* close(): the call queues its body. *)
close ==
    /\ ~Running
    /\ built = "ok"
    /\ closePc = "idle"
    /\ closePc' = "scheduled"
    /\ completed' = NothingFinished
    /\ UNCHANGED << built, state, connection, options, initPc, onReadyPromises,
                    waiters, table, inflight, clock, expirationInterval,
                    liveTimers, ended, createOutcome, ending, configError,
                    closeDone >>

(* The body of close(): the timer is cleared; the connection is ended when *)
(* the store is INITIALIZED and endConnectionOnClose is set, and otherwise *)
(* the call has completed.                                                 *)
CloseBodyAnyState ==
    /\ ~Running
    /\ closePc = "scheduled"
    /\ liveTimers' = ClearedTimers
    /\ expirationInterval' = 0
    /\ closePc' = "idle"
    /\ IF connection # "none" /\ options.endConnectionOnClose
       THEN /\ state' = "CLOSING"
            /\ ended' = ended + 1
            /\ ending' = TRUE
            /\ UNCHANGED closeDone
       ELSE /\ closeDone' = TRUE
            /\ UNCHANGED << state, ended, ending >>
    /\ completed' = NothingFinished
    /\ UNCHANGED << built, connection, options, initPc, onReadyPromises,
                    waiters, table, inflight, clock, createOutcome,
                    configError >>
CloseBody ==
    /\ ~Running
    /\ closePc = "scheduled"
    /\ liveTimers' = ClearedTimers
    /\ expirationInterval' = 0
    /\ closePc' = "idle"
    /\ IF state = "INITIALIZED" /\ connection # "none" /\ options.endConnectionOnClose
       THEN /\ state' = "CLOSING"
            /\ ended' = ended + 1
            /\ ending' = TRUE
            /\ UNCHANGED closeDone
       ELSE /\ closeDone' = TRUE
            /\ UNCHANGED << state, ended, ending >>
    /\ completed' = NothingFinished
    /\ UNCHANGED << built, connection, options, initPc, onReadyPromises,
                    waiters, table, inflight, clock, createOutcome,
                    configError >>

(* connection.end() has settled: finally, CLOSED, and the close() that     *)
(* ended the connection has completed.                                     *)
CloseEnded ==
    /\ ~Running
    /\ ending
    /\ ~MicrotaskPending
    /\ state' = "CLOSED"
    /\ ending' = FALSE
    /\ closeDone' = TRUE
    /\ completed' = NothingFinished
    /\ UNCHANGED << built, connection, options, initPc, closePc,
                    onReadyPromises, waiters, table, inflight, clock,
                    expirationInterval, liveTimers, ended, createOutcome,
                    configError >>

(* setExpirationInterval(), called by the user of the store: the timer is  *)
(* cleared, a sweep is issued, a new timer is armed.                       *)
setExpirationInterval ==
    /\ ~Running
    /\ built = "ok"
    /\ inflight' = inflight \cup {SweepCall}
    /\ expirationInterval' = NewHandle
    /\ liveTimers' = ClearedTimers \cup {NewHandle}
    /\ completed' = NothingFinished
    /\ UNCHANGED << built, state, connection, options, initPc, closePc,
                    onReadyPromises, waiters, table, clock, ended,
                    createOutcome, ending, configError, closeDone >>

(* clearExpirationInterval(), called by the user of the store. *)
clearExpirationInterval ==
    /\ ~Running
    /\ built = "ok"
    /\ liveTimers' = ClearedTimers
    /\ expirationInterval' = 0
    /\ completed' = NothingFinished
    /\ UNCHANGED << built, state, connection, options, initPc, closePc,
                    onReadyPromises, waiters, table, inflight, clock, ended,
                    createOutcome, ending, configError, closeDone >>

(* store.options = given, after construction: the setter stores the merged *)
(* configuration and then validates it.                                    *)
AssignOptions(given) ==
    /\ ~Running
    /\ built = "ok"
    /\ options' = SetOptions(given, connection)
    /\ configError' = IF validateOptions(options') THEN "assignment" ELSE "none"
    /\ completed' = NothingFinished
    /\ UNCHANGED << built, state, connection, initPc, closePc,
                    onReadyPromises, waiters, table, inflight, clock,
                    expirationInterval, liveTimers, ended, createOutcome,
                    ending, closeDone >>

----------------------------------------------------------------------------
(* The clock. *)
Tick ==
    /\ ~Running
    /\ clock < MaxClock
    /\ clock' = clock + 1
    /\ completed' = NothingFinished
    /\ UNCHANGED << built, state, connection, options, initPc, closePc,
                    onReadyPromises, waiters, table, inflight,
                    expirationInterval, liveTimers, ended, createOutcome,
                    ending, configError, closeDone >>

----------------------------------------------------------------------------
(* The store's operations.  Each handler runs to its await (the call: the  *)
(* statement and its parameters are fixed and sent); later the connection  *)
(* executes the statement and answers, or rejects, and the handler goes on *)
(* (the continuation).                                                     *)

Issue(c) ==
    /\ CanCall(c)
    /\ inflight' = inflight \cup {c}
    /\ completed' = NothingFinished
    /\ UNCHANGED << built, state, connection, options, initPc, closePc,
                    onReadyPromises, waiters, table, clock, expirationInterval,
                    liveTimers, ended, createOutcome, ending, configError,
                    closeDone >>

(* The statement of c is answered (ok) or rejected, and the handler that   *)
(* awaits it finishes with the callback of rec.                            *)
Finish(c, ok, rec) ==
    /\ inflight' = inflight \ {c}
    /\ table' = IF ok THEN Execute(c, table) ELSE table
    /\ completed' = rec
    /\ UNCHANGED << built, state, connection, options, initPc, closePc,
                    onReadyPromises, waiters, clock, expirationInterval,
                    liveTimers, ended, createOutcome, ending, configError,
                    closeDone >>

get(session_id) == Issue(CallRec("get", session_id, 0, NoText, 0, TRUE))

GetContinue(c, ok) ==
    LET a == Answer(c, ok, table)
    IN  /\ Answered(c, "get")
        /\ Finish(c, ok, Finished(a, Now, TRUE, GetOutcome(query(a), Now)))

set(session_id, data) ==
    Issue(CallRec("set", session_id, SetExpires(data, clock, options),
                  JSONstringify(data), 0, TRUE))

SetContinue(c, ok) ==
    LET a == Answer(c, ok, table)
    IN  /\ Answered(c, "set")
        /\ Finish(c, ok, Finished(a, 0, TRUE, SetOutcome(query(a))))

touch(session_id, data) ==
    IF options.disableTouch
    THEN /\ Ready
         /\ completed' = Finished(CallRec("touch", session_id, 0, NoText, 0, TRUE),
                                  0, FALSE, Outcome(0, "none", NoResult))
         /\ UNCHANGED << built, state, connection, options, initPc, closePc,
                         onReadyPromises, waiters, table, inflight, clock,
                         expirationInterval, liveTimers, ended, createOutcome,
                         ending, configError, closeDone >>
    ELSE Issue(CallRec("touch", session_id, TouchExpires(data, clock, options),
                       NoText, 0, TRUE))

TouchContinue(c, ok) ==
    LET a == Answer(c, ok, table)
    IN  /\ Answered(c, "touch")
        /\ Finish(c, ok, Finished(a, 0, TRUE, TouchOutcome(query(a))))

destroy(session_id, hasCb) == Issue(CallRec("destroy", session_id, 0, NoText, 0, hasCb))

DestroyContinue(c, ok) ==
    LET a == Answer(c, ok, table)
    IN  /\ Answered(c, "destroy")
        /\ Finish(c, ok, Finished(a, 0, TRUE, DestroyOutcome(query(a), c.hasCb)))

length == Issue(CallRec("length", NoId, 0, NoText, Now, TRUE))

LengthContinue(c, ok) ==
    LET a == Answer(c, ok, table)
    IN  /\ Answered(c, "length")
        /\ Finish(c, ok, Finished(a, c.now, TRUE, LengthOutcome(query(a))))

all == Issue(CallRec("all", NoId, 0, NoText, Now, TRUE))

AllContinue(c, ok) ==
    LET a == Answer(c, ok, table)
    IN  /\ Answered(c, "all")
        /\ Finish(c, ok, Finished(a, c.now, TRUE, AllOutcome(query(a))))

(* clear(callback): the query is issued and not awaited; clear has         *)
(* finished when it returns.                                               *)
clear(hasCb) ==
    LET c == CallRec("clear", NoId, 0, NoText, 0, hasCb)
    IN  /\ CanCall(c)
        /\ inflight' = inflight \cup {c}
        /\ completed' = Finished(c, 0, FALSE, ClearOutcome(hasCb))
        /\ UNCHANGED << built, state, connection, options, initPc, closePc,
                        onReadyPromises, waiters, table, clock,
                        expirationInterval, liveTimers, ended, createOutcome,
                        ending, configError, closeDone >>

(* The DELETE that clear left behind is answered or rejected; nobody       *)
(* awaits it.                                                              *)
ClearQueryDone(c, ok) ==
    /\ Answered(c, "clear")
    /\ inflight' = inflight \ {c}
    /\ table' = IF ok THEN Execute(c, table) ELSE table
    /\ completed' = NothingFinished
    /\ UNCHANGED << built, state, connection, options, initPc, closePc,
                    onReadyPromises, waiters, clock, expirationInterval,
                    liveTimers, ended, createOutcome, ending, configError,
                    closeDone >>

(* The interval timer fires: clearExpiredSessions(). *)
TimerFires(h) ==
    /\ ~Running
    /\ h \in liveTimers
    /\ ~MicrotaskPending
    /\ Cardinality(Sweeps) < MaxSweeps
    /\ inflight' = inflight \cup {SweepCall}
    /\ completed' = NothingFinished
    /\ UNCHANGED << built, state, connection, options, initPc, closePc,
                    onReadyPromises, waiters, table, clock, expirationInterval,
                    liveTimers, ended, createOutcome, ending, configError,
                    closeDone >>

(* clearExpiredSessions after its await: the result is returned, or the    *)
(* error rethrown, to a caller that drops it; no callback.                 *)
SweepContinueStops(c, ok) ==
    LET a == Answer(c, ok, table)
    IN  /\ Answered(c, "sweep")
        /\ inflight' = inflight \ {c}
        /\ table' = IF ok THEN Execute(c, table) ELSE table
        /\ completed' = Finished(a, c.now, TRUE, Outcome(0, "none", NoResult))
        /\ liveTimers' = IF ok THEN liveTimers ELSE ClearedTimers
        /\ expirationInterval' = IF ok THEN expirationInterval ELSE 0
        /\ UNCHANGED << built, state, connection, options, initPc, closePc,
                        onReadyPromises, waiters, clock, ended, createOutcome,
                        ending, configError, closeDone >>
SweepContinue(c, ok) ==
    LET a == Answer(c, ok, table)
    IN  /\ Answered(c, "sweep")
        /\ Finish(c, ok, Finished(a, c.now, TRUE, Outcome(0, "none", NoResult)))

(* The callback, or the operation that had none to call, returns. *)
Return ==
    /\ Running
    /\ completed' = NothingFinished
    /\ UNCHANGED << built, state, connection, options, initPc, closePc,
                    onReadyPromises, waiters, table, inflight, clock,
                    expirationInterval, liveTimers, ended, createOutcome,
                    ending, configError, closeDone >>

----------------------------------------------------------------------------
(* The constructor and the promise chain it starts. *)
StoreSteps ==
    \/ \E hasOptions \in BOOLEAN, given \in UserOptions, conn \in {"none", "ext"} :
          Construct(hasOptions, given, conn)
    \/ InitCreateTable
    \/ \E c \in inflight, ok \in BOOLEAN : CreateTableContinue(c, ok)
    \/ InitReady
    \/ InitResolve

(* The clock and the sweeper. *)
EnvSteps ==
    \/ Tick
    \/ \E h \in TimerHandles : TimerFires(h)
    \/ \E c \in inflight, ok \in BOOLEAN : SweepContinue(c, ok)
    \/ Return

(* The session operations the middleware calls. *)
CrudSteps ==
    \/ \E id \in Ids : get(id)
    \/ \E c \in inflight, ok \in BOOLEAN : GetContinue(c, ok)
    \/ \E id \in Ids, data \in Payloads : set(id, data)
    \/ \E c \in inflight, ok \in BOOLEAN : SetContinue(c, ok)
    \/ \E id \in Ids, data \in Payloads : touch(id, data)
    \/ \E c \in inflight, ok \in BOOLEAN : TouchContinue(c, ok)
    \/ \E id \in Ids, hasCb \in BOOLEAN : destroy(id, hasCb)
    \/ \E c \in inflight, ok \in BOOLEAN : DestroyContinue(c, ok)
    \/ length
    \/ \E c \in inflight, ok \in BOOLEAN : LengthContinue(c, ok)
    \/ all
    \/ \E c \in inflight, ok \in BOOLEAN : AllContinue(c, ok)
    \/ \E hasCb \in BOOLEAN : clear(hasCb)
    \/ \E c \in inflight, ok \in BOOLEAN : ClearQueryDone(c, ok)

(* The lifecycle of the store: construction, readiness, the sweeper, close. *)
Next ==
    \/ StoreSteps
    \/ \E w \in WaiterIds : onReady(w)
    \/ close
    \/ CloseBody
    \/ CloseEnded
    \/ EnvSteps

Spec == Init /\ [][Next]_vars

(* The lifecycle, with the timer methods and the options setter called by  *)
(* the user of the store.                                                  *)
ApiNext ==
    \/ Next
    \/ setExpirationInterval
    \/ clearExpirationInterval
    \/ \E given \in UserOptions : AssignOptions(given)

ApiSpec == Init /\ [][ApiNext]_vars

(* set and touch of one session, with every kind of cookie. *)
ExpirySteps ==
    \/ \E data \in CookiePayloads : set("a", data)
    \/ \E c \in inflight, ok \in BOOLEAN : SetContinue(c, ok)
    \/ \E data \in CookiePayloads : touch("a", data)
    \/ \E c \in inflight, ok \in BOOLEAN : TouchContinue(c, ok)

ExpiryNext ==
    \/ StoreSteps
    \/ ExpirySteps
    \/ EnvSteps

ExpirySpec == Init /\ [][ExpiryNext]_vars

(* The session operations on a constructed store. *)
CrudNext ==
    \/ StoreSteps
    \/ CrudSteps
    \/ EnvSteps

CrudSpec == Init /\ [][CrudNext]_vars

----------------------------------------------------------------------------
(* Steps, as the properties below name them. *)

(* The statement of call c is executed, with success, in this step. *)
Executed(c) ==
    /\ c \in inflight
    /\ inflight' = inflight \ {c}
    /\ completed'.op = c.op /\ completed'.queried /\ completed'.ok

(* This step is a step of call c: its call or its continuation. *)
StepOf(c) == (c \in inflight) # (c \in inflight')

ExternalConnection == built = "ok" /\ connection = "ext"

----------------------------------------------------------------------------
(* Lifecycle properties, checked under Spec. *)

\* C4: a store built on a connection it was handed never calls
\* connection.end(), and its effective endConnectionOnClose is false.
C4_NeverEndsForeignConnection ==
    ExternalConnection => (ended = 0 /\ ~options.endConnectionOnClose)

\* C5: when the CREATE TABLE query has failed, the store is never INITIALIZED,
\* no sweep timer is armed, and no waiter of onReady() is resolved.
C5_CreateFailureRejects ==
    createOutcome = "failed" =>
        /\ state # "INITIALIZED"
        /\ liveTimers = {}
        /\ \A w \in WaiterIds : waiters[w] # "resolved"

\* C6: no promise of onReady() is left dangling: a waiter that is pending
\* still has the drain of the queue ahead of it (once the constructor's chain
\* has ended nothing settles a waiter any more).
C6_NoDanglingWaiter ==
    \A w \in WaiterIds : waiters[w] = "pending" => initPc \notin {"done", "failed"}

----------------------------------------------------------------------------
(* Properties of the session operations, checked under CrudSpec. *)

\* C1: a get that finds the row set(id, data) wrote, with expires >= now,
\* calls back with no error and a value equal to data.
C1_RoundTrip ==
    \A d \in Payloads :
        ( /\ completed.op = "get" /\ completed.ok
          /\ \E r \in completed.rows :
                r.data = JSONstringify(d) /\ r.expires >= completed.now )
        => (completed.cb = 1 /\ completed.err = "none" /\ completed.res = DataResult(d))

\* C2: an operation that was given a callback and has finished has invoked
\* it exactly once.
C2_CallbackExactlyOnce ==
    (completed.op \in UserOps /\ completed.hasCb) => completed.cb = 1

\* C3: when the query of get, set, touch, destroy, length or all has failed,
\* the callback receives an error.
C3_QueryFailureReported ==
    ( /\ completed.op \in {"get", "set", "touch", "destroy", "length", "all"}
      /\ completed.queried /\ ~completed.ok /\ completed.hasCb )
    => (completed.cb = 1 /\ completed.err # "none")

C7_ExpiredGetDone ==
    /\ completed.op = "get" /\ completed.ok
    /\ \E r \in completed.rows : r.expires < completed.now
C7_ExpiredYieldsNull ==
    C7_ExpiredGetDone =>
        (completed.cb = 1 /\ completed.err = "none" /\ completed.res = NullResult)
\* C7: a get whose query returned a row with expires < now calls back with
\* null and no error, and no step of a get changes the table.
C7_ExpiredGet ==
    [][ /\ C7_ExpiredYieldsNull'
        /\ \A c \in inflight \cup inflight' :
              (c.op = "get" /\ StepOf(c)) => table' = table ]_vars
C7_Witness ==
    /\ C7_ExpiredGetDone
    /\ completed.rows \subseteq table

\* C8: a sweep whose DELETE succeeds removes exactly the rows with
\* expires < now (the sweep's now); rows with expires >= now stay as they are.
C8_SweepDeletesExpired ==
    [][ \A c \in inflight :
          (c.op = "sweep" /\ Executed(c)) =>
              table' = {r \in table : r.expires >= c.now} ]_vars
C8_Witness ==
    /\ completed.op = "sweep" /\ completed.ok /\ completed.count >= 1
    /\ \E r \in table : r.expires = completed.now

C9_OneRowPerId ==
    \A r1, r2 \in table : r1.session_id = r2.session_id => r1 = r2
\* C9: a set whose statement succeeds leaves exactly one row for its id,
\* carrying its expires and data, and leaves the other rows as they are; no
\* two rows of the table share a session id.
C9_Upsert ==
    [][ /\ C9_OneRowPerId'
        /\ \A c \in inflight :
              (c.op = "set" /\ Executed(c)) =>
                  /\ SelectById(table', c.id) = {Row(c.id, c.expires, c.data)}
                  /\ DeleteById(table', c.id) = DeleteById(table, c.id)
                  /\ (Row(c.id, c.expires, c.data) \in table => table' = table) ]_vars
C9_Witness ==
    /\ completed.op = "set" /\ completed.ok /\ completed.count = 2
    /\ Row(completed.id, completed.expires, completed.data) \in table
    /\ Cardinality(table) = 2

\* C10: no step of a touch changes a data column, adds a row or removes one;
\* only the expires of the row with the touched id may change.
C10_TouchKeepsData ==
    [][ \A c \in inflight \cup inflight' :
          (c.op = "touch" /\ StepOf(c)) =>
              /\ {[data |-> r.data, session_id |-> r.session_id] : r \in table'}
                 = {[data |-> r.data, session_id |-> r.session_id] : r \in table}
              /\ Cardinality(table') = Cardinality(table)
              /\ DeleteById(table', c.id) = DeleteById(table, c.id) ]_vars
C10_Witness ==
    /\ completed.op = "touch" /\ completed.queried /\ completed.ok /\ completed.count = 1
    /\ \E r \in table :
          r.session_id = completed.id /\ r.expires = completed.expires /\ r.data.valid
    /\ Cardinality(table) = 2

\* C11: when destroy(id) has called back without an error, the table holds
\* no row with that session id.
C11_DestroyRemoves ==
    (completed.op = "destroy" /\ completed.cb = 1 /\ completed.err = "none")
    => SelectById(table, completed.id) = {}

C12_GetOfMissingDone ==
    /\ completed.op = "get" /\ completed.queried /\ completed.ok
    /\ completed.rows = {}
\* C12: a get whose SELECT succeeds and finds no row for the id calls back
\* once, with no error and with null.
C12_MissingYieldsNull ==
    C12_GetOfMissingDone =>
        (completed.cb = 1 /\ completed.err = "none" /\ completed.res = NullResult)
C12_Witness ==
    /\ C12_GetOfMissingDone
    /\ SelectById(table, completed.id) = {}
    /\ table # {}

C13_LengthDone == completed.op = "length" /\ completed.queried /\ completed.ok
C13_CountsLiveRows ==
    C13_LengthDone =>
        /\ completed.cb = 1 /\ completed.err = "none"
        /\ completed.res =
              CountResult(Cardinality({r \in table : r.expires >= completed.now}))
\* C13: a length whose query succeeds calls back with the number of rows
\* with expires >= now (0 on an empty table); a successful set of an id that
\* had no row, with an expiry not before now, makes that number exactly one
\* greater.
C13_Length ==
    [][ /\ C13_CountsLiveRows'
        /\ \A c \in inflight :
              ( /\ c.op = "set" /\ Executed(c)
                /\ SelectById(table, c.id) = {}
                /\ c.expires >= Now )
              => Cardinality({r \in table' : r.expires >= Now})
                    = Cardinality({r \in table : r.expires >= Now}) + 1 ]_vars
C13_Witness ==
    /\ C13_LengthDone
    /\ completed.count = 1
    /\ Cardinality(table) = 2
    /\ \E r \in table : r.expires < completed.now

C20_AllDone == completed.op = "all" /\ completed.queried /\ completed.ok
\* C20: an all whose query succeeds calls back with no error and a mapping
\* of exactly the ids of the rows with expires >= now whose payload decodes,
\* each to its decoded payload; rows that do not decode are left out, and an
\* empty table gives the empty mapping.
C20_AllMapsLiveRows ==
    C20_AllDone =>
        /\ completed.cb = 1 /\ completed.err = "none"
        /\ completed.res =
              MapResult({[data |-> r.data.v, session_id |-> r.session_id] :
                         r \in {x \in table : x.expires >= completed.now /\ x.data.valid}})
C20_Witness ==
    /\ C20_AllDone
    /\ \E r \in table : r.expires >= completed.now /\ ~r.data.valid
    /\ completed.res.map # {}

----------------------------------------------------------------------------
(* Properties of the configuration and the timer, checked under ApiSpec. *)

C14_UnknownColumn ==
    \E name \in options.columnNames : name \notin {"session_id", "expires", "data"}
\* C14: options whose columnNames hold a key other than session_id, expires
\* and data make the constructor, and a later assignment to options, throw;
\* when the constructor throws, no statement has been issued, the
\* constructor's chain has not started and no timer is armed.
C14_UnknownColumnRejected ==
    /\ C14_UnknownColumn => configError # "none"
    /\ configError = "constructor" =>
          /\ built = "threw"
          /\ initPc = "none" /\ createOutcome = "none"
          /\ inflight = {} /\ liveTimers = {} /\ expirationInterval = 0
C14_Witness ==
    /\ C14_UnknownColumn
    /\ configError = "constructor"
    /\ built = "threw"

----------------------------------------------------------------------------
(* Properties of close and the sweeper, checked under Spec. *)

\* C15: once a close() call has completed, no sweep timer is armed.
C15_ClosedStopsSweeper == closeDone => liveTimers = {}

C16_Rank(s) ==
    CASE s = "UNINITIALIZED" -> 0
      [] s = "INITIALIZING" -> 1
      [] s = "INITIALIZED" -> 2
      [] s = "CLOSING" -> 3
      [] s = "CLOSED" -> 4
\* C16: the state never moves to an earlier one of UNINITIALIZED,
\* INITIALIZING, INITIALIZED, CLOSING, CLOSED; CLOSING is entered only from
\* INITIALIZED; CLOSED is never left.
C16_StateMovesForward ==
    [][ /\ C16_Rank(state') >= C16_Rank(state)
        /\ (state' = "CLOSING" /\ state # "CLOSING") => state = "INITIALIZED"
        /\ state = "CLOSED" => state' = "CLOSED" ]_vars
C16_Witness ==
    /\ state = "CLOSED"
    /\ closePc = "scheduled"
    /\ ended = 1

----------------------------------------------------------------------------
(* The timer, checked under ApiSpec. *)

\* C17: at most one sweep timer is armed, and it is the one the store
\* holds in #expirationInterval: arming a timer while one runs cancels the
\* running one first.
C17_AtMostOneTimer ==
    /\ Cardinality(liveTimers) <= 1
    /\ liveTimers = IF expirationInterval = 0 THEN {} ELSE {expirationInterval}
C17_Witness ==
    /\ expirationInterval = 2
    /\ liveTimers = {2}
    /\ closeDone

----------------------------------------------------------------------------
(* The sweeper, checked under Spec. *)

C18_SweepFailed == completed.op = "sweep" /\ completed.queried /\ ~completed.ok
\* C18: the step in which a sweep's query fails leaves the timer armed as it
\* was, leaves the state, the waiters and the table as they were, and calls
\* nobody back with an error.
C18_FailedSweepKeepsSweeper ==
    [][ C18_SweepFailed' =>
          /\ liveTimers' = liveTimers
          /\ expirationInterval' = expirationInterval
          /\ state' = state
          /\ waiters' = waiters
          /\ table' = table
          /\ completed'.cb = 0 /\ completed'.err = "none" ]_vars
C18_Witness ==
    /\ C18_SweepFailed
    /\ liveTimers # {}
    /\ state = "INITIALIZED"

----------------------------------------------------------------------------
(* The expiry rule, checked under ExpirySpec. *)

(* The rule as specified, in half seconds: the cookie's expires when it is *)
(* there, else its _expires when it is there, else now + expiration; then  *)
(* whole seconds, rounded.                                                 *)
C19_Rule(d, now, expiration) ==
    LET ms == IF d.cookie.present /\ d.cookie.expires # Absent
                 THEN d.cookie.expires.t
              ELSE IF d.cookie.present /\ d.cookie._expires # Absent
                 THEN d.cookie._expires.t
              ELSE now + expiration
    IN  (ms + 1) \div 2
C19_SameRule ==
    \A d \in CookiePayloads :
        /\ SetExpires(d, clock, options) = C19_Rule(d, clock, options.expiration)
        /\ TouchExpires(d, clock, options) = C19_Rule(d, clock, options.expiration)
\* C19: set and touch compute the expires they send by one rule: for the
\* same payload and time both give the cookie's expires, else its _expires,
\* else now + expiration, in whole seconds; and the statement a set or a
\* touch issues carries that value.
C19_SetAndTouchSameExpiry ==
    [][ /\ C19_SameRule'
        /\ \A c \in inflight' \ inflight :
              c.op \in {"set", "touch"} =>
                  \E d \in CookiePayloads :
                      /\ c.expires = C19_Rule(d, clock, options.expiration)
                      /\ c.op = "set" => c.data = JSONstringify(d) ]_vars
C19_Witness ==
    /\ \E c \in inflight : c.op = "touch" /\ c.expires = 2
    /\ \E r \in table :
          /\ r.session_id = "a" /\ r.expires = 2
          /\ r.data = JSONstringify(Payload(Cookie(DateV(3), DateV(0)), 4))
    /\ clock = 0

====
